---- MODULE Spec2Model ----
(***************************************************************************)
(* A model of the two bounded MPMC ring-buffer queues of the repository:   *)
(*   - TMPMCQueue            (src/MPMCQueue.h, lines 204-416)              *)
(*   - lockless_mpmc_queue   (src/LocklessMPMCQueue.h, lines 17-192)       *)
(* Every thread runs one call at a time; a call is split into one action   *)
(* per access to shared memory (a cursor load, a fetch_add, a CAS, a slot  *)
(* read or write), so that every interleaving the atomics allow is a       *)
(* behaviour.  Accesses are sequentially consistent in the model; a racing *)
(* slot read returns the value before or after the racing write.           *)
(***************************************************************************)
EXTENDS Integers, Sequences, FiniteSets, Bags, TLC

(***************************************************************************)
(* Bounds of the model.                                                    *)
(***************************************************************************)
NumThreads == 2      \* threads calling the queue concurrently
MaxOps == 4          \* calls started in one behaviour
MaxSeqOps == 5       \* calls of a single-threaded behaviour
MaxQueueSize == 2    \* largest requested size (TQueueSize / QUEUE_SIZE)
MaxVal == 2          \* elements are 1..MaxVal
NumProducers == 2    \* N of the producers-then-drain scenario
CursorBits == 3      \* width of lockless_mpmc_queue's cursors (32 in the code)
MaxUnroundedSize == 3 \* largest TQueueSize of a queue that does not round it
SizeBits == 6        \* width of TMPMCQueue's TQueueSize and IndexMask (64 in the code)

Threads == 1..NumThreads
Values == 1..MaxVal
QueueSizes == 1..MaxQueueSize

(***************************************************************************)
(* EMPMCQueueErrorStatus (MPMCQueue.h 177-187).                            *)
(***************************************************************************)
TRANSACTION_SUCCESS == "TRANSACTION_SUCCESS"
BUFFER_FULL == "BUFFER_FULL"
BUFFER_EMPTY == "BUFFER_EMPTY"
BUFFER_NOT_INITIALIZED == "BUFFER_NOT_INITIALIZED"

(***************************************************************************)
(* The content of a block returned by malloc: indeterminate until written. *)
(* A read of it yields any element value.                                  *)
(***************************************************************************)
Indeterminate == -1
NoIndex == 0 - 1

(***************************************************************************)
(* Bit operations on naturals, computed bit by bit.                        *)
(***************************************************************************)
RECURSIVE BitAnd(_, _)
BitAnd(a, b) ==
    IF a = 0 \/ b = 0 THEN 0
    ELSE (a % 2) * (b % 2) + 2 * BitAnd(a \div 2, b \div 2)

RECURSIVE BitOr(_, _)
BitOr(a, b) ==
    IF a = 0 THEN b
    ELSE IF b = 0 THEN a
    ELSE (IF (a % 2) + (b % 2) > 0 THEN 1 ELSE 0) + 2 * BitOr(a \div 2, b \div 2)

\* a >> k for a value below 2^31 (a shift by 31 or more leaves nothing)
ShiftRight(a, k) == IF k >= 31 THEN 0 ELSE a \div (2 ^ k)

Smear(x, k) == BitOr(x, ShiftRight(x, k))

\* uint_fast64_t arithmetic wraps at SizeModulus
SizeModulus == 2 ^ SizeBits

(***************************************************************************)
(* TMPMCQueue::TMPMCQueue, the round-up of TQueueSize (MPMCQueue.h 223-233)*)
(* in unsigned arithmetic: NearestPower++ wraps.                           *)
(***************************************************************************)
NearestPower(TQueueSize) ==
    (Smear(Smear(Smear(Smear(Smear(Smear(TQueueSize - 1, 1), 2), 4), 8), 16), 32) + 1)
        % SizeModulus

VARIABLES
    heap,                   \* block obtained from calloc / malloc -> times freed
    IndexMask,              \* TMPMCQueue::IndexMask
    RingBuffer,             \* TMPMCQueue::RingBuffer: slot -> *RingBuffer[slot].Data
    ProducerCursor,         \* TMPMCQueue::ProducerCursor
    ConsumerCursor,         \* TMPMCQueue::ConsumerCursor
    index_mask,             \* lockless_mpmc_queue::data.index_mask
    ring_buffer,            \* lockless_mpmc_queue::data.ring_buffer
    producer_cursor,        \* lockless_mpmc_queue::data.producer_cursor
    consumer_cursor,        \* lockless_mpmc_queue::data.consumer_cursor
    pc,                     \* thread -> where it is in its current call
    NewElement,             \* thread -> argument of its Enqueue / push
    Output,                 \* thread -> the caller's variable passed to Dequeue / pop
    CurrentConsumerCursor,  \* thread -> local of the call
    CurrentProducerCursor,  \* thread -> local of the call
    ClaimedIndex,           \* thread -> local of the call
    current_value,          \* thread -> local of custom_cas
    history                 \* the calls that returned, in the order they returned

vars == <<heap, IndexMask, RingBuffer, ProducerCursor, ConsumerCursor,
          index_mask, ring_buffer, producer_cursor, consumer_cursor,
          pc, NewElement, Output, CurrentConsumerCursor, CurrentProducerCursor,
          ClaimedIndex, current_value, history>>

TQueueVars == <<IndexMask, RingBuffer, ProducerCursor, ConsumerCursor>>
LQueueVars == <<index_mask, ring_buffer, producer_cursor, consumer_cursor>>

Capacity == IndexMask + 1

\* the blocks of the heap: the one data.ring_buffer points to, the one
\* RingBuffer points to, and the one RingBuffer[i].Data points to
ring_buffer_block == 0
RingBufferBlock == 1
DataBlock(i) == i + 2

\* blocks as calloc / malloc return them: not freed
Allocated(blocks) == [b \in blocks |-> 0]

\* free(block)
free(block) == [heap EXCEPT ![block] = @ + 1]

\* TMPMCQueue: ClaimedIndex & IndexMask (MPMCQueue.h 280, 308, 342, 368)
ClaimedIndexMask(Index) == BitAnd(Index, IndexMask)

\* buffer[slot] = v; a store outside the allocated block does not land in
\* the block
Store(buffer, slot, v) ==
    IF slot \in DOMAIN buffer THEN [buffer EXCEPT ![slot] = v] ELSE buffer

\* one returned call
Returned(t, op, idx, val, status) ==
    [t |-> t, op |-> op, idx |-> idx, val |-> val, status |-> status]

\* calls started so far: the returned ones and the ones in flight
CallsStarted == Len(history) + Cardinality({t \in DOMAIN pc : pc[t] # "idle"})
CallsStartedBy(t) ==
    Len(SelectSeq(history, LAMBDA h : h.t = t)) + (IF pc[t] # "idle" THEN 1 ELSE 0)

Return(t) ==
    /\ pc' = [pc EXCEPT ![t] = "idle"]
    /\ CurrentConsumerCursor' = [CurrentConsumerCursor EXCEPT ![t] = 0]
    /\ CurrentProducerCursor' = [CurrentProducerCursor EXCEPT ![t] = 0]
    /\ ClaimedIndex' = [ClaimedIndex EXCEPT ![t] = 0]
    /\ NewElement' = [NewElement EXCEPT ![t] = 0]

\* every thread is between calls
ThreadsInit(T) ==
    /\ pc = [t \in T |-> "idle"]
    /\ NewElement = [t \in T |-> 0]
    /\ Output = [t \in T |-> 0]
    /\ CurrentConsumerCursor = [t \in T |-> 0]
    /\ CurrentProducerCursor = [t \in T |-> 0]
    /\ ClaimedIndex = [t \in T |-> 0]
    /\ current_value = [t \in T |-> 0]
    /\ history = <<>>

(***************************************************************************)
(* State after construction of a TMPMCQueue<T, TQueueSize> (212-246): the  *)
(* nodes are calloc'ed, each node's Data block is malloc'ed (so its        *)
(* content is indeterminate), both cursors are 0.                          *)
(***************************************************************************)
TQueueInit(TQueueSize) ==
    /\ heap = Allocated({RingBufferBlock} \cup
                        {DataBlock(i) : i \in 0..(NearestPower(TQueueSize) - 1)})
    /\ IndexMask = (NearestPower(TQueueSize) - 1) % SizeModulus
    /\ RingBuffer = [i \in 0..(NearestPower(TQueueSize) - 1) |-> Indeterminate]
    /\ ConsumerCursor = 0
    /\ ProducerCursor = 0

\* a lockless_mpmc_queue that is not used in the behaviour
LQueueUnused ==
    /\ index_mask = 0
    /\ ring_buffer = <<>>
    /\ producer_cursor = 0
    /\ consumer_cursor = 0

Init ==
    /\ \E TQueueSize \in QueueSizes : TQueueInit(TQueueSize)
    /\ LQueueUnused
    /\ ThreadsInit(Threads)

(***************************************************************************)
(* TMPMCQueue::Enqueue (MPMCQueue.h 267-286), the fetch_add variant.       *)
(***************************************************************************)
\* line 270: CurrentConsumerCursor = ConsumerCursor.Get()
Enqueue_LoadConsumer(t, v) ==
    /\ pc[t] = "idle"
    /\ NewElement' = [NewElement EXCEPT ![t] = v]
    /\ CurrentConsumerCursor' = [CurrentConsumerCursor EXCEPT ![t] = ConsumerCursor]
    /\ pc' = [pc EXCEPT ![t] = "Enqueue_LoadProducer"]
    /\ UNCHANGED <<heap, TQueueVars, LQueueVars, Output, CurrentProducerCursor,
                   ClaimedIndex, current_value, history>>

\* lines 274-277: the test the code uses for "the buffer is full"
EnqueueIsFull(CurrentProducer, CurrentConsumer) ==
    (CurrentProducer + 1) = CurrentConsumer

\* lines 271-277: CurrentProducerCursor = ProducerCursor.Get(); the full test
Enqueue_LoadProducer(t) ==
    /\ pc[t] = "Enqueue_LoadProducer"
    /\ IF EnqueueIsFull(ProducerCursor, CurrentConsumerCursor[t])
       THEN /\ history' = Append(history,
                   Returned(t, "Enqueue", NoIndex, NewElement[t], BUFFER_FULL))
            /\ Return(t)
       ELSE /\ CurrentProducerCursor' =
                   [CurrentProducerCursor EXCEPT ![t] = ProducerCursor]
            /\ pc' = [pc EXCEPT ![t] = "Enqueue_Claim"]
            /\ UNCHANGED <<history, CurrentConsumerCursor, ClaimedIndex, NewElement>>
    /\ UNCHANGED <<heap, TQueueVars, LQueueVars, Output, current_value>>

\* a claim that trusts the cursor value loaded before instead of the
\* value fetch_add returns
Enqueue_Claim_Stale(t) ==
    /\ pc[t] = "Enqueue_Claim"
    /\ ClaimedIndex' = [ClaimedIndex EXCEPT ![t] = CurrentProducerCursor[t]]
    /\ ProducerCursor' = ProducerCursor + 1
    /\ pc' = [pc EXCEPT ![t] = "Enqueue_Write"]
    /\ UNCHANGED <<heap, IndexMask, RingBuffer, ConsumerCursor, LQueueVars, NewElement,
                   Output, CurrentConsumerCursor, CurrentProducerCursor,
                   current_value, history>>

\* line 279: ClaimedIndex = ProducerCursor.IncrementAndGetOldValue()
Enqueue_Claim(t) ==
    /\ pc[t] = "Enqueue_Claim"
    /\ ClaimedIndex' = [ClaimedIndex EXCEPT ![t] = ProducerCursor]
    /\ ProducerCursor' = ProducerCursor + 1
    /\ pc' = [pc EXCEPT ![t] = "Enqueue_Write"]
    /\ UNCHANGED <<heap, IndexMask, RingBuffer, ConsumerCursor, LQueueVars, NewElement,
                   Output, CurrentConsumerCursor, CurrentProducerCursor,
                   current_value, history>>

\* lines 280-285: *RingBuffer[ClaimedIndex & IndexMask].Data = NewElement
Enqueue_Write(t) ==
    /\ pc[t] = "Enqueue_Write"
    /\ RingBuffer' = Store(RingBuffer, ClaimedIndexMask(ClaimedIndex[t]), NewElement[t])
    /\ history' = Append(history,
           Returned(t, "Enqueue", ClaimedIndex[t], NewElement[t], TRANSACTION_SUCCESS))
    /\ Return(t)
    /\ UNCHANGED <<heap, IndexMask, ProducerCursor, ConsumerCursor, LQueueVars, Output,
                   current_value>>

(***************************************************************************)
(* TMPMCQueue::Dequeue (MPMCQueue.h 327-348), the fetch_add variant.       *)
(***************************************************************************)
\* line 330: CurrentConsumerCursor = ConsumerCursor.Get()
Dequeue_LoadConsumer(t) ==
    /\ pc[t] = "idle"
    /\ CurrentConsumerCursor' = [CurrentConsumerCursor EXCEPT ![t] = ConsumerCursor]
    /\ pc' = [pc EXCEPT ![t] = "Dequeue_LoadProducer"]
    /\ UNCHANGED <<heap, TQueueVars, LQueueVars, NewElement, Output, CurrentProducerCursor,
                   ClaimedIndex, current_value, history>>

\* the empty test made one element too early
DequeueIsEmpty_OffByOne(CurrentConsumer, CurrentProducer) ==
    CurrentConsumer + 1 >= CurrentProducer

\* the empty test with the comparison the wrong way round
DequeueIsEmpty_Reversed(CurrentConsumer, CurrentProducer) ==
    CurrentConsumer > CurrentProducer

\* lines 334-337: the test the code uses for "the buffer is empty"
DequeueIsEmpty(CurrentConsumer, CurrentProducer) ==
    CurrentConsumer = CurrentProducer

\* a Dequeue that resets the caller's variable when the buffer is empty
Dequeue_LoadProducer_ResetsOutput(t) ==
    /\ pc[t] = "Dequeue_LoadProducer"
    /\ IF DequeueIsEmpty(CurrentConsumerCursor[t], ProducerCursor)
       THEN /\ history' = Append(history,
                   Returned(t, "Dequeue", NoIndex, 0, BUFFER_EMPTY))
            /\ Output' = [Output EXCEPT ![t] = 0]
            /\ Return(t)
       ELSE /\ CurrentProducerCursor' =
                   [CurrentProducerCursor EXCEPT ![t] = ProducerCursor]
            /\ pc' = [pc EXCEPT ![t] = "Dequeue_Claim"]
            /\ UNCHANGED <<history, CurrentConsumerCursor, ClaimedIndex, NewElement,
                           Output>>
    /\ UNCHANGED <<heap, TQueueVars, LQueueVars, current_value>>

\* lines 331-337: CurrentProducerCursor = ProducerCursor.Get(); the empty test
Dequeue_LoadProducer(t) ==
    /\ pc[t] = "Dequeue_LoadProducer"
    /\ IF DequeueIsEmpty(CurrentConsumerCursor[t], ProducerCursor)
       THEN /\ history' = Append(history,
                   Returned(t, "Dequeue", NoIndex, Output[t], BUFFER_EMPTY))
            /\ Return(t)
       ELSE /\ CurrentProducerCursor' =
                   [CurrentProducerCursor EXCEPT ![t] = ProducerCursor]
            /\ pc' = [pc EXCEPT ![t] = "Dequeue_Claim"]
            /\ UNCHANGED <<history, CurrentConsumerCursor, ClaimedIndex, NewElement>>
    /\ UNCHANGED <<heap, TQueueVars, LQueueVars, Output, current_value>>

\* line 340: ClaimedIndex = ConsumerCursor.IncrementAndGetOldValue()
Dequeue_Claim(t) ==
    /\ pc[t] = "Dequeue_Claim"
    /\ ClaimedIndex' = [ClaimedIndex EXCEPT ![t] = ConsumerCursor]
    /\ ConsumerCursor' = ConsumerCursor + 1
    /\ pc' = [pc EXCEPT ![t] = "Dequeue_Read"]
    /\ UNCHANGED <<heap, IndexMask, RingBuffer, ProducerCursor, LQueueVars, NewElement,
                   Output, CurrentConsumerCursor, CurrentProducerCursor,
                   current_value, history>>

\* what a read of a slot yields: its content, or anything when the block was
\* never written since malloc or the slot lies outside the allocated block
SlotReads(slot) ==
    IF slot \notin DOMAIN RingBuffer THEN 0..MaxVal
    ELSE IF RingBuffer[slot] = Indeterminate THEN 0..MaxVal
    ELSE {RingBuffer[slot]}

\* a Dequeue that resets the slot it has read
Dequeue_Read_ClearsSlot(t) ==
    /\ pc[t] = "Dequeue_Read"
    /\ \E v \in SlotReads(ClaimedIndexMask(ClaimedIndex[t])) :
          /\ Output' = [Output EXCEPT ![t] = v]
          /\ history' = Append(history,
                 Returned(t, "Dequeue", ClaimedIndex[t], v, TRANSACTION_SUCCESS))
    /\ RingBuffer' = Store(RingBuffer, ClaimedIndexMask(ClaimedIndex[t]), 0)
    /\ Return(t)
    /\ UNCHANGED <<heap, IndexMask, ProducerCursor, ConsumerCursor, LQueueVars,
                   current_value>>

\* a Dequeue that waits until its slot has been written
Dequeue_Read_WaitsForWrite(t) ==
    /\ pc[t] = "Dequeue_Read"
    /\ RingBuffer[ClaimedIndexMask(ClaimedIndex[t])] # Indeterminate
    /\ Output' = [Output EXCEPT ![t] = RingBuffer[ClaimedIndexMask(ClaimedIndex[t])]]
    /\ history' = Append(history,
           Returned(t, "Dequeue", ClaimedIndex[t],
                    RingBuffer[ClaimedIndexMask(ClaimedIndex[t])], TRANSACTION_SUCCESS))
    /\ Return(t)
    /\ UNCHANGED <<heap, TQueueVars, LQueueVars, current_value>>

\* lines 342-347: Output = *RingBuffer[ClaimedIndex & IndexMask].Data
Dequeue_Read(t) ==
    /\ pc[t] = "Dequeue_Read"
    /\ \E v \in SlotReads(ClaimedIndexMask(ClaimedIndex[t])) :
          /\ Output' = [Output EXCEPT ![t] = v]
          /\ history' = Append(history,
                 Returned(t, "Dequeue", ClaimedIndex[t], v, TRANSACTION_SUCCESS))
    /\ Return(t)
    /\ UNCHANGED <<heap, TQueueVars, LQueueVars, current_value>>

(***************************************************************************)
(* TSequentialContainer::CompareAndSet (MPMCQueue.h 96-100) on a cursor:   *)
(* compare_exchange_weak.  It succeeds only when the cursor holds Expected,*)
(* and may fail even then; a failure stores the observed value in Expected.*)
(* Outcomes: <<succeeded, new cursor, new Expected>>.                      *)
(***************************************************************************)
\* a compare-and-set that stores the new value even when it fails
CompareAndSet_StoresOnFailure(Cursor, Expected, NewValue) ==
    IF Cursor = Expected
    THEN {<<TRUE, NewValue, Expected>>, <<FALSE, NewValue, Cursor>>}
    ELSE {<<FALSE, NewValue, Cursor>>}

CompareAndSet(Cursor, Expected, NewValue) ==
    IF Cursor = Expected
    THEN {<<TRUE, NewValue, Expected>>, <<FALSE, Cursor, Cursor>>}
    ELSE {<<FALSE, Cursor, Cursor>>}

(***************************************************************************)
(* TMPMCQueue::EnqueueCAS (MPMCQueue.h 288-314).                           *)
(***************************************************************************)
\* line 291
EnqueueCAS_LoadConsumer(t, v) ==
    /\ pc[t] = "idle"
    /\ NewElement' = [NewElement EXCEPT ![t] = v]
    /\ CurrentConsumerCursor' = [CurrentConsumerCursor EXCEPT ![t] = ConsumerCursor]
    /\ pc' = [pc EXCEPT ![t] = "EnqueueCAS_LoadProducer"]
    /\ UNCHANGED <<heap, TQueueVars, LQueueVars, Output, CurrentProducerCursor,
                   ClaimedIndex, current_value, history>>

\* lines 292-300: load, full test, ClaimedIndex = CurrentProducerCursor
EnqueueCAS_LoadProducer(t) ==
    /\ pc[t] = "EnqueueCAS_LoadProducer"
    /\ IF EnqueueIsFull(ProducerCursor, CurrentConsumerCursor[t])
       THEN /\ history' = Append(history,
                   Returned(t, "EnqueueCAS", NoIndex, NewElement[t], BUFFER_FULL))
            /\ Return(t)
       ELSE /\ CurrentProducerCursor' =
                   [CurrentProducerCursor EXCEPT ![t] = ProducerCursor]
            /\ ClaimedIndex' = [ClaimedIndex EXCEPT ![t] = ProducerCursor]
            /\ pc' = [pc EXCEPT ![t] = "EnqueueCAS_CompareAndSet"]
            /\ UNCHANGED <<history, CurrentConsumerCursor, NewElement>>
    /\ UNCHANGED <<heap, TQueueVars, LQueueVars, Output, current_value>>

\* line 302: while(!ProducerCursor.CompareAndSet(ClaimedIndex, ClaimedIndex + 1))
EnqueueCAS_CompareAndSet(t) ==
    /\ pc[t] = "EnqueueCAS_CompareAndSet"
    /\ \E r \in CompareAndSet(ProducerCursor, ClaimedIndex[t], ClaimedIndex[t] + 1) :
          /\ ProducerCursor' = r[2]
          /\ ClaimedIndex' = [ClaimedIndex EXCEPT ![t] = r[3]]
          /\ pc' = [pc EXCEPT ![t] =
                 IF r[1] THEN "EnqueueCAS_Write" ELSE "EnqueueCAS_Reload"]
    /\ UNCHANGED <<heap, IndexMask, RingBuffer, ConsumerCursor, LQueueVars, NewElement,
                   Output, CurrentConsumerCursor, CurrentProducerCursor,
                   current_value, history>>

\* lines 304-305: ClaimedIndex = ProducerCursor.Get()
EnqueueCAS_Reload(t) ==
    /\ pc[t] = "EnqueueCAS_Reload"
    /\ ClaimedIndex' = [ClaimedIndex EXCEPT ![t] = ProducerCursor]
    /\ pc' = [pc EXCEPT ![t] = "EnqueueCAS_CompareAndSet"]
    /\ UNCHANGED <<heap, TQueueVars, LQueueVars, NewElement, Output, CurrentConsumerCursor,
                   CurrentProducerCursor, current_value, history>>

\* an EnqueueCAS that writes the slot of the cursor value it stored
EnqueueCAS_Write_NextSlot(t) ==
    /\ pc[t] = "EnqueueCAS_Write"
    /\ RingBuffer' =
           Store(RingBuffer, ClaimedIndexMask(ClaimedIndex[t] + 1), NewElement[t])
    /\ history' = Append(history,
           Returned(t, "EnqueueCAS", ClaimedIndex[t], NewElement[t], TRANSACTION_SUCCESS))
    /\ Return(t)
    /\ UNCHANGED <<heap, IndexMask, ProducerCursor, ConsumerCursor, LQueueVars, Output,
                   current_value>>

\* lines 308-313
EnqueueCAS_Write(t) ==
    /\ pc[t] = "EnqueueCAS_Write"
    /\ RingBuffer' = Store(RingBuffer, ClaimedIndexMask(ClaimedIndex[t]), NewElement[t])
    /\ history' = Append(history,
           Returned(t, "EnqueueCAS", ClaimedIndex[t], NewElement[t], TRANSACTION_SUCCESS))
    /\ Return(t)
    /\ UNCHANGED <<heap, IndexMask, ProducerCursor, ConsumerCursor, LQueueVars, Output,
                   current_value>>

(***************************************************************************)
(* TMPMCQueue::DequeueCAS (MPMCQueue.h 350-374).                           *)
(***************************************************************************)
\* line 352
DequeueCAS_LoadConsumer(t) ==
    /\ pc[t] = "idle"
    /\ CurrentConsumerCursor' = [CurrentConsumerCursor EXCEPT ![t] = ConsumerCursor]
    /\ pc' = [pc EXCEPT ![t] = "DequeueCAS_LoadProducer"]
    /\ UNCHANGED <<heap, TQueueVars, LQueueVars, NewElement, Output, CurrentProducerCursor,
                   ClaimedIndex, current_value, history>>

\* lines 353-360: load, empty test, ClaimedIndex = CurrentConsumerCursor
DequeueCAS_LoadProducer(t) ==
    /\ pc[t] = "DequeueCAS_LoadProducer"
    /\ IF DequeueIsEmpty(CurrentConsumerCursor[t], ProducerCursor)
       THEN /\ history' = Append(history,
                   Returned(t, "DequeueCAS", NoIndex, Output[t], BUFFER_EMPTY))
            /\ Return(t)
       ELSE /\ CurrentProducerCursor' =
                   [CurrentProducerCursor EXCEPT ![t] = ProducerCursor]
            /\ ClaimedIndex' = [ClaimedIndex EXCEPT ![t] = CurrentConsumerCursor[t]]
            /\ pc' = [pc EXCEPT ![t] = "DequeueCAS_CompareAndSet"]
            /\ UNCHANGED <<history, CurrentConsumerCursor, NewElement>>
    /\ UNCHANGED <<heap, TQueueVars, LQueueVars, Output, current_value>>

\* line 362: while(!ConsumerCursor.CompareAndSet(ClaimedIndex, ClaimedIndex + 1))
DequeueCAS_CompareAndSet(t) ==
    /\ pc[t] = "DequeueCAS_CompareAndSet"
    /\ \E r \in CompareAndSet(ConsumerCursor, ClaimedIndex[t], ClaimedIndex[t] + 1) :
          /\ ConsumerCursor' = r[2]
          /\ ClaimedIndex' = [ClaimedIndex EXCEPT ![t] = r[3]]
          /\ pc' = [pc EXCEPT ![t] =
                 IF r[1] THEN "DequeueCAS_Read" ELSE "DequeueCAS_Reload"]
    /\ UNCHANGED <<heap, IndexMask, RingBuffer, ProducerCursor, LQueueVars, NewElement,
                   Output, CurrentConsumerCursor, CurrentProducerCursor,
                   current_value, history>>

\* lines 364-365: ClaimedIndex = ConsumerCursor.Get()
DequeueCAS_Reload(t) ==
    /\ pc[t] = "DequeueCAS_Reload"
    /\ ClaimedIndex' = [ClaimedIndex EXCEPT ![t] = ConsumerCursor]
    /\ pc' = [pc EXCEPT ![t] = "DequeueCAS_CompareAndSet"]
    /\ UNCHANGED <<heap, TQueueVars, LQueueVars, NewElement, Output, CurrentConsumerCursor,
                   CurrentProducerCursor, current_value, history>>

\* lines 368-373
DequeueCAS_Read(t) ==
    /\ pc[t] = "DequeueCAS_Read"
    /\ \E v \in SlotReads(ClaimedIndexMask(ClaimedIndex[t])) :
          /\ Output' = [Output EXCEPT ![t] = v]
          /\ history' = Append(history,
                 Returned(t, "DequeueCAS", ClaimedIndex[t], v, TRANSACTION_SUCCESS))
    /\ Return(t)
    /\ UNCHANGED <<heap, TQueueVars, LQueueVars, current_value>>

(***************************************************************************)
(* Any number of threads calling the four operations of one TMPMCQueue     *)
(* concurrently.                                                           *)
(***************************************************************************)
MayCall == CallsStarted < MaxOps

Next ==
    \E t \in Threads :
        \/ MayCall /\ \E v \in Values : Enqueue_LoadConsumer(t, v)
        \/ Enqueue_LoadProducer(t)
        \/ Enqueue_Claim(t)
        \/ Enqueue_Write(t)
        \/ MayCall /\ Dequeue_LoadConsumer(t)
        \/ Dequeue_LoadProducer(t)
        \/ Dequeue_Claim(t)
        \/ Dequeue_Read(t)
        \/ MayCall /\ \E v \in Values : EnqueueCAS_LoadConsumer(t, v)
        \/ EnqueueCAS_LoadProducer(t)
        \/ EnqueueCAS_CompareAndSet(t)
        \/ EnqueueCAS_Reload(t)
        \/ EnqueueCAS_Write(t)
        \/ MayCall /\ DequeueCAS_LoadConsumer(t)
        \/ DequeueCAS_LoadProducer(t)
        \/ DequeueCAS_CompareAndSet(t)
        \/ DequeueCAS_Reload(t)
        \/ DequeueCAS_Read(t)

Spec == Init /\ [][Next]_vars

(***************************************************************************)
(* Any number of threads calling only the compare-and-set operations,      *)
(* EnqueueCAS and DequeueCAS, of one TMPMCQueue concurrently.              *)
(***************************************************************************)
NextCAS ==
    \E t \in Threads :
        \/ MayCall /\ \E v \in Values : EnqueueCAS_LoadConsumer(t, v)
        \/ EnqueueCAS_LoadProducer(t)
        \/ EnqueueCAS_CompareAndSet(t)
        \/ EnqueueCAS_Reload(t)
        \/ EnqueueCAS_Write(t)
        \/ MayCall /\ DequeueCAS_LoadConsumer(t)
        \/ DequeueCAS_LoadProducer(t)
        \/ DequeueCAS_CompareAndSet(t)
        \/ DequeueCAS_Reload(t)
        \/ DequeueCAS_Read(t)

SpecCAS == Init /\ [][NextCAS]_vars

(***************************************************************************)
(* Any number of threads calling only the fetch_add operations, Enqueue    *)
(* and Dequeue, of one TMPMCQueue concurrently.                            *)
(***************************************************************************)
NextFA ==
    \E t \in Threads :
        \/ MayCall /\ \E v \in Values : Enqueue_LoadConsumer(t, v)
        \/ Enqueue_LoadProducer(t)
        \/ Enqueue_Claim(t)
        \/ Enqueue_Write(t)
        \/ MayCall /\ Dequeue_LoadConsumer(t)
        \/ Dequeue_LoadProducer(t)
        \/ Dequeue_Claim(t)
        \/ Dequeue_Read(t)

SpecFA == Init /\ [][NextFA]_vars

(***************************************************************************)
(* One thread calling Enqueue and Dequeue of one TMPMCQueue in sequence.   *)
(***************************************************************************)
Main == CHOOSE t \in Threads : \A u \in Threads : t <= u

MayCallSeq == CallsStarted < MaxSeqOps

NextSeq ==
    \/ MayCallSeq /\ \E v \in Values : Enqueue_LoadConsumer(Main, v)
    \/ Enqueue_LoadProducer(Main)
    \/ Enqueue_Claim(Main)
    \/ Enqueue_Write(Main)
    \/ MayCallSeq /\ Dequeue_LoadConsumer(Main)
    \/ Dequeue_LoadProducer(Main)
    \/ Dequeue_Claim(Main)
    \/ Dequeue_Read(Main)

SpecSeq == Init /\ [][NextSeq]_vars

(***************************************************************************)
(* Threads calling Enqueue and Dequeue concurrently, where thread Main is  *)
(* always scheduled again (it keeps making the steps of the call it is in) *)
(* and nothing is assumed about the other threads: each of them may stop   *)
(* for ever at any point of its call.                                      *)
(***************************************************************************)
StepOfCall(t) ==
    \/ Enqueue_LoadProducer(t)
    \/ Enqueue_Claim(t)
    \/ Enqueue_Write(t)
    \/ Dequeue_LoadProducer(t)
    \/ Dequeue_Claim(t)
    \/ Dequeue_Read(t)

SpecFAFair == Init /\ [][NextFA]_vars /\ WF_vars(StepOfCall(Main))

(***************************************************************************)
(* One producer thread calling Enqueue and one consumer thread calling     *)
(* Dequeue, concurrently (the benchmark of README.md, lines 236-256).      *)
(***************************************************************************)
Producer == Main
Consumer == Main + 1

NextSPSC ==
    \/ MayCall /\ \E v \in Values : Enqueue_LoadConsumer(Producer, v)
    \/ Enqueue_LoadProducer(Producer)
    \/ Enqueue_Claim(Producer)
    \/ Enqueue_Write(Producer)
    \/ MayCall /\ Dequeue_LoadConsumer(Consumer)
    \/ Dequeue_LoadProducer(Consumer)
    \/ Dequeue_Claim(Consumer)
    \/ Dequeue_Read(Consumer)

SpecSPSC == Init /\ [][NextSPSC]_vars

(***************************************************************************)
(* NumProducers threads each call Enqueue ItemsPerProducer times on a      *)
(* queue that has room for all of it; when they are all done, one consumer *)
(* calls Dequeue until it returns BUFFER_EMPTY.                            *)
(***************************************************************************)
Producers == 1..NumProducers
\* M: the producers share the MaxOps calls evenly
ItemsPerProducer == MaxOps \div NumProducers
Drainer == NumProducers + 1
TotalItems == NumProducers * ItemsPerProducer

InitDrain ==
    /\ \E TQueueSize \in TotalItems..(TotalItems + 1) : TQueueInit(TQueueSize)
    /\ LQueueUnused
    /\ ThreadsInit(Producers \cup {Drainer})

ProducersDone ==
    \A p \in Producers : pc[p] = "idle" /\ CallsStartedBy(p) = ItemsPerProducer

Drained ==
    \E i \in 1..Len(history) :
        history[i].op = "Dequeue" /\ history[i].status = BUFFER_EMPTY

NextDrain ==
    \/ \E p \in Producers :
          \/ /\ CallsStartedBy(p) < ItemsPerProducer
             /\ \E v \in Values : Enqueue_LoadConsumer(p, v)
          \/ Enqueue_LoadProducer(p)
          \/ Enqueue_Claim(p)
          \/ Enqueue_Write(p)
    \/ ProducersDone /\ ~Drained /\ Dequeue_LoadConsumer(Drainer)
    \/ Dequeue_LoadProducer(Drainer)
    \/ Dequeue_Claim(Drainer)
    \/ Dequeue_Read(Drainer)

SpecDrain == InitDrain /\ [][NextDrain]_vars

(***************************************************************************)
(* lockless_mpmc_queue (LocklessMPMCQueue.h).  Its cursors are unsigned    *)
(* integers of CursorBits bits.  The locals current_producer_cursor,        *)
(* current_consumer_cursor, new_element and element of push and pop are    *)
(* held in CurrentProducerCursor, CurrentConsumerCursor, NewElement, Output.*)
(***************************************************************************)
CursorModulus == 2 ^ CursorBits

\* ceil_to_nearest_power_of_two_minus_one (lines 151-169)
ceil_to_nearest_power_of_two_minus_one(QUEUE_SIZE) ==
    IF QUEUE_SIZE = 0 THEN 0
    ELSE Smear(Smear(Smear(Smear(Smear(QUEUE_SIZE - 1, 1), 2), 4), 8), 16)

\* the constructor (lines 36-43, 47-60): calloc(index_mask + 1, sizeof(T))
\* zeroes the slots; index_mask + 1 is computed in the cursors' width
LQueueInit(QUEUE_SIZE) ==
    /\ heap = Allocated({ring_buffer_block})
    /\ index_mask = ceil_to_nearest_power_of_two_minus_one(QUEUE_SIZE)
    /\ ring_buffer =
           [i \in 0..(((ceil_to_nearest_power_of_two_minus_one(QUEUE_SIZE) + 1)
                          % CursorModulus) - 1) |-> 0]
    /\ consumer_cursor = 0
    /\ producer_cursor = 0

\* a TMPMCQueue that is not used in the behaviour
TQueueUnused ==
    /\ IndexMask = 0
    /\ RingBuffer = <<>>
    /\ ConsumerCursor = 0
    /\ ProducerCursor = 0

InitL ==
    /\ \E QUEUE_SIZE \in QueueSizes : LQueueInit(QUEUE_SIZE)
    /\ TQueueUnused
    /\ ThreadsInit(Threads)

\* push is called (line 70)
push_Call(t, v) ==
    /\ pc[t] = "idle"
    /\ NewElement' = [NewElement EXCEPT ![t] = v]
    /\ pc' = [pc EXCEPT ![t] = "push_LoadProducer"]
    /\ UNCHANGED <<heap, TQueueVars, LQueueVars, Output, CurrentConsumerCursor,
                   CurrentProducerCursor, ClaimedIndex, current_value, history>>

\* lines 77-78
push_LoadProducer(t) ==
    /\ pc[t] = "push_LoadProducer"
    /\ CurrentProducerCursor' = [CurrentProducerCursor EXCEPT ![t] = producer_cursor]
    /\ pc' = [pc EXCEPT ![t] = "push_LoadConsumer"]
    /\ UNCHANGED <<heap, TQueueVars, LQueueVars, NewElement, Output, CurrentConsumerCursor,
                   ClaimedIndex, current_value, history>>

\* a push whose test for "the buffer is full" compares the distance of the
\* cursors with the number of slots
push_LoadConsumer_CapacityTest(t) ==
    /\ pc[t] = "push_LoadConsumer"
    /\ IF (CurrentProducerCursor[t] - consumer_cursor) % CursorModulus = index_mask + 1
       THEN /\ history' = Append(history,
                   Returned(t, "push", NoIndex, NewElement[t], FALSE))
            /\ Return(t)
       ELSE /\ CurrentConsumerCursor' =
                   [CurrentConsumerCursor EXCEPT ![t] = consumer_cursor]
            /\ pc' = [pc EXCEPT ![t] = "push_custom_cas_Load"]
            /\ UNCHANGED <<history, CurrentProducerCursor, ClaimedIndex, NewElement>>
    /\ UNCHANGED <<heap, TQueueVars, LQueueVars, Output, current_value>>

\* lines 79-88: load the consumer cursor; new_producer_cursor ==
\* current_consumer_cursor is the test for "the buffer is full"
push_LoadConsumer(t) ==
    /\ pc[t] = "push_LoadConsumer"
    /\ IF (CurrentProducerCursor[t] + 1) % CursorModulus = consumer_cursor
       THEN /\ history' = Append(history,
                   Returned(t, "push", NoIndex, NewElement[t], FALSE))
            /\ Return(t)
       ELSE /\ CurrentConsumerCursor' =
                   [CurrentConsumerCursor EXCEPT ![t] = consumer_cursor]
            /\ pc' = [pc EXCEPT ![t] = "push_custom_cas_Load"]
            /\ UNCHANGED <<history, CurrentProducerCursor, ClaimedIndex, NewElement>>
    /\ UNCHANGED <<heap, TQueueVars, LQueueVars, Output, current_value>>

\* a custom_cas in push that repeats the test for "the buffer is full"
\* against the cursors as they are when it compares
push_custom_cas_Load_Revalidates(t) ==
    /\ pc[t] = "push_custom_cas_Load"
    /\ IF /\ producer_cursor = CurrentProducerCursor[t]
          /\ (producer_cursor + 1) % CursorModulus # consumer_cursor
       THEN /\ current_value' = [current_value EXCEPT ![t] = producer_cursor]
            /\ pc' = [pc EXCEPT ![t] = "push_custom_cas_Store"]
       ELSE /\ current_value' = [current_value EXCEPT ![t] = 0]
            /\ pc' = [pc EXCEPT ![t] = "push_LoadProducer"]
    /\ UNCHANGED <<heap, TQueueVars, LQueueVars, NewElement, Output, CurrentConsumerCursor,
                   CurrentProducerCursor, ClaimedIndex, history>>

\* a push that, when custom_cas returns false, calls it again with the
\* cursor value it loaded before
push_custom_cas_Load_NoReload(t) ==
    /\ pc[t] = "push_custom_cas_Load"
    /\ producer_cursor = CurrentProducerCursor[t]
    /\ current_value' = [current_value EXCEPT ![t] = producer_cursor]
    /\ pc' = [pc EXCEPT ![t] = "push_custom_cas_Store"]
    /\ UNCHANGED <<heap, TQueueVars, LQueueVars, NewElement, Output, CurrentConsumerCursor,
                   CurrentProducerCursor, ClaimedIndex, history>>

\* custom_cas, lines 174-177 and 183: load the cursor, compare with expected;
\* a mismatch returns false and push starts its loop again
push_custom_cas_Load(t) ==
    /\ pc[t] = "push_custom_cas_Load"
    /\ IF producer_cursor = CurrentProducerCursor[t]
       THEN /\ current_value' = [current_value EXCEPT ![t] = producer_cursor]
            /\ pc' = [pc EXCEPT ![t] = "push_custom_cas_Store"]
       ELSE /\ current_value' = [current_value EXCEPT ![t] = 0]
            /\ pc' = [pc EXCEPT ![t] = "push_LoadProducer"]
    /\ UNCHANGED <<heap, TQueueVars, LQueueVars, NewElement, Output, CurrentConsumerCursor,
                   CurrentProducerCursor, ClaimedIndex, history>>

\* custom_cas, lines 179-180: store desired, return true
push_custom_cas_Store(t) ==
    /\ pc[t] = "push_custom_cas_Store"
    /\ producer_cursor' = (CurrentProducerCursor[t] + 1) % CursorModulus
    /\ current_value' = [current_value EXCEPT ![t] = 0]
    /\ pc' = [pc EXCEPT ![t] = "push_Write"]
    /\ UNCHANGED <<heap, TQueueVars, index_mask, ring_buffer, consumer_cursor, NewElement,
                   Output, CurrentConsumerCursor, CurrentProducerCursor, ClaimedIndex,
                   history>>

\* lines 95-97
push_Write(t) ==
    /\ pc[t] = "push_Write"
    /\ ring_buffer' =
           Store(ring_buffer, BitAnd(CurrentProducerCursor[t], index_mask), NewElement[t])
    /\ history' = Append(history,
           Returned(t, "push", CurrentProducerCursor[t], NewElement[t], TRUE))
    /\ Return(t)
    /\ UNCHANGED <<heap, TQueueVars, index_mask, producer_cursor, consumer_cursor, Output,
                   current_value>>

\* pop is called (line 100)
pop_Call(t) ==
    /\ pc[t] = "idle"
    /\ pc' = [pc EXCEPT ![t] = "pop_LoadConsumer"]
    /\ UNCHANGED <<heap, TQueueVars, LQueueVars, NewElement, Output, CurrentConsumerCursor,
                   CurrentProducerCursor, ClaimedIndex, current_value, history>>

\* lines 107-108
pop_LoadConsumer(t) ==
    /\ pc[t] = "pop_LoadConsumer"
    /\ CurrentConsumerCursor' = [CurrentConsumerCursor EXCEPT ![t] = consumer_cursor]
    /\ pc' = [pc EXCEPT ![t] = "pop_LoadProducer"]
    /\ UNCHANGED <<heap, TQueueVars, LQueueVars, NewElement, Output, CurrentProducerCursor,
                   ClaimedIndex, current_value, history>>

\* lines 109-118: load the producer cursor; the test for "the buffer is empty"
pop_LoadProducer(t) ==
    /\ pc[t] = "pop_LoadProducer"
    /\ IF CurrentConsumerCursor[t] = producer_cursor
       THEN /\ history' = Append(history,
                   Returned(t, "pop", NoIndex, Output[t], FALSE))
            /\ Return(t)
       ELSE /\ CurrentProducerCursor' =
                   [CurrentProducerCursor EXCEPT ![t] = producer_cursor]
            /\ pc' = [pc EXCEPT ![t] = "pop_custom_cas_Load"]
            /\ UNCHANGED <<history, CurrentConsumerCursor, ClaimedIndex, NewElement>>
    /\ UNCHANGED <<heap, TQueueVars, LQueueVars, Output, current_value>>

\* custom_cas, lines 174-177 and 183
pop_custom_cas_Load(t) ==
    /\ pc[t] = "pop_custom_cas_Load"
    /\ IF consumer_cursor = CurrentConsumerCursor[t]
       THEN /\ current_value' = [current_value EXCEPT ![t] = consumer_cursor]
            /\ pc' = [pc EXCEPT ![t] = "pop_custom_cas_Store"]
       ELSE /\ current_value' = [current_value EXCEPT ![t] = 0]
            /\ pc' = [pc EXCEPT ![t] = "pop_LoadConsumer"]
    /\ UNCHANGED <<heap, TQueueVars, LQueueVars, NewElement, Output, CurrentConsumerCursor,
                   CurrentProducerCursor, ClaimedIndex, history>>

\* custom_cas, lines 179-180
pop_custom_cas_Store(t) ==
    /\ pc[t] = "pop_custom_cas_Store"
    /\ consumer_cursor' = (CurrentConsumerCursor[t] + 1) % CursorModulus
    /\ current_value' = [current_value EXCEPT ![t] = 0]
    /\ pc' = [pc EXCEPT ![t] = "pop_Read"]
    /\ UNCHANGED <<heap, TQueueVars, index_mask, ring_buffer, producer_cursor, NewElement,
                   Output, CurrentConsumerCursor, CurrentProducerCursor, ClaimedIndex,
                   history>>

\* what a read of ring_buffer[slot] yields: its content, or anything when
\* the slot lies outside the allocated block
slot_reads(slot) ==
    IF slot \in DOMAIN ring_buffer THEN {ring_buffer[slot]} ELSE 0..MaxVal

\* lines 125-127
pop_Read(t) ==
    /\ pc[t] = "pop_Read"
    /\ \E v \in slot_reads(BitAnd(CurrentConsumerCursor[t], index_mask)) :
          /\ Output' = [Output EXCEPT ![t] = v]
          /\ history' = Append(history,
                 Returned(t, "pop", CurrentConsumerCursor[t], v, TRUE))
    /\ Return(t)
    /\ UNCHANGED <<heap, TQueueVars, LQueueVars, current_value>>

(***************************************************************************)
(* Any number of threads calling push and pop of one lockless_mpmc_queue   *)
(* concurrently.                                                           *)
(***************************************************************************)
NextL ==
    \E t \in Threads :
        \/ MayCall /\ \E v \in Values : push_Call(t, v)
        \/ push_LoadProducer(t)
        \/ push_LoadConsumer(t)
        \/ push_custom_cas_Load(t)
        \/ push_custom_cas_Store(t)
        \/ push_Write(t)
        \/ MayCall /\ pop_Call(t)
        \/ pop_LoadConsumer(t)
        \/ pop_LoadProducer(t)
        \/ pop_custom_cas_Load(t)
        \/ pop_custom_cas_Store(t)
        \/ pop_Read(t)

SpecL == InitL /\ [][NextL]_vars

(***************************************************************************)
(* One thread calls push once; the other threads call push and pop often   *)
(* enough to take the producer cursor once around its CursorBits bits      *)
(* while that call is in progress.                                         *)
(***************************************************************************)
CallsToWrap == CursorModulus + 1
CallsStartedByOthers == CallsStarted - CallsStartedBy(Main)

NextWrap ==
    \/ CallsStartedBy(Main) < 1 /\ push_Call(Main, MaxVal)
    \/ \E t \in Threads \ {Main} :
          /\ CallsStartedByOthers < CallsToWrap
          /\ (push_Call(t, 1) \/ pop_Call(t))
    \/ \E t \in Threads :
          \/ push_LoadProducer(t)
          \/ push_LoadConsumer(t)
          \/ push_custom_cas_Load(t)
          \/ push_custom_cas_Store(t)
          \/ push_Write(t)
          \/ pop_LoadConsumer(t)
          \/ pop_LoadProducer(t)
          \/ pop_custom_cas_Load(t)
          \/ pop_custom_cas_Store(t)
          \/ pop_Read(t)

SpecWrap == InitL /\ [][NextWrap]_vars

(***************************************************************************)
(* lockless_mpmc_queue::size, empty and full (lines 130-148).  empty and   *)
(* full each call size and compare what it returns; f names the function   *)
(* that was called.  The difference of the two loaded cursors is returned  *)
(* as an unsigned integer of the cursors' width.                           *)
(***************************************************************************)
Observers == {"size", "empty", "full"}

\* lines 132-133: the load of the producer cursor
size_LoadProducer(t, f) ==
    /\ pc[t] = "idle"
    /\ CurrentProducerCursor' = [CurrentProducerCursor EXCEPT ![t] = producer_cursor]
    /\ pc' = [pc EXCEPT ![t] = f]
    /\ UNCHANGED <<heap, TQueueVars, LQueueVars, NewElement, Output, CurrentConsumerCursor,
                   ClaimedIndex, current_value, history>>

\* line 137: current_producer_cursor - current_consumer_cursor
size(current_producer_cursor, current_consumer_cursor) ==
    (current_producer_cursor - current_consumer_cursor) % CursorModulus

\* line 142
empty(current_size) == current_size = 0

\* line 147
full(current_size) == current_size = index_mask + 1

\* lines 134-137 (and 142, 147): the load of the consumer cursor, the result
size_LoadConsumer(t) ==
    /\ pc[t] \in Observers
    /\ LET current_size == size(CurrentProducerCursor[t], consumer_cursor)
       IN  history' = Append(history,
               Returned(t, pc[t], NoIndex, current_size,
                        CASE pc[t] = "empty" -> empty(current_size)
                          [] pc[t] = "full" -> full(current_size)
                          [] OTHER -> TRUE))
    /\ Return(t)
    /\ UNCHANGED <<heap, TQueueVars, LQueueVars, Output, current_value>>

(***************************************************************************)
(* Any number of threads calling push, pop, size, empty and full of one    *)
(* lockless_mpmc_queue concurrently.                                       *)
(***************************************************************************)
NextLSize ==
    \/ NextL
    \/ \E t \in Threads :
          \/ MayCall /\ \E f \in Observers : size_LoadProducer(t, f)
          \/ size_LoadConsumer(t)

SpecLSize == InitL /\ [][NextLSize]_vars

(***************************************************************************)
(* Construction.  One thread constructs a TMPMCQueue<T, TQueueSize> and a  *)
(* lockless_mpmc_queue<T, QUEUE_SIZE>, in either order, for any template   *)
(* argument the compiler accepts.  The history records the argument.       *)
(***************************************************************************)
Constructed(class) == \E i \in 1..Len(history) : history[i].op = class

InitRound ==
    /\ heap = Allocated({})
    /\ TQueueUnused
    /\ LQueueUnused
    /\ ThreadsInit(Threads)

\* TMPMCQueue::TMPMCQueue (MPMCQueue.h 212-246); a TQueueSize of 0 or
\* UINT64_MAX returns before anything is set
TMPMCQueue_Construct(t, TQueueSize) ==
    /\ pc[t] = "idle"
    /\ ~Constructed("TMPMCQueue")
    /\ IF TQueueSize = 0 \/ TQueueSize = SizeModulus - 1
       THEN UNCHANGED <<heap, TQueueVars>>
       ELSE /\ heap' = heap @@ Allocated({RingBufferBlock} \cup
                           {DataBlock(i) : i \in 0..(NearestPower(TQueueSize) - 1)})
            /\ IndexMask' = (NearestPower(TQueueSize) - 1) % SizeModulus
            /\ RingBuffer' =
                   [i \in 0..(NearestPower(TQueueSize) - 1) |-> Indeterminate]
            /\ ConsumerCursor' = 0
            /\ ProducerCursor' = 0
    /\ history' = Append(history,
           Returned(t, "TMPMCQueue", NoIndex, TQueueSize, TRUE))
    /\ UNCHANGED <<LQueueVars, pc, NewElement, Output, CurrentConsumerCursor,
                   CurrentProducerCursor, ClaimedIndex, current_value>>

\* lockless_mpmc_queue::lockless_mpmc_queue (LocklessMPMCQueue.h 47-60);
\* the static_asserts admit 0 < QUEUE_SIZE <= 0xffffffff
lockless_mpmc_queue_Construct(t, QUEUE_SIZE) ==
    /\ pc[t] = "idle"
    /\ ~Constructed("lockless_mpmc_queue")
    /\ heap' = heap @@ Allocated({ring_buffer_block})
    /\ index_mask' = ceil_to_nearest_power_of_two_minus_one(QUEUE_SIZE)
    /\ ring_buffer' =
           [i \in 0..(((ceil_to_nearest_power_of_two_minus_one(QUEUE_SIZE) + 1)
                          % CursorModulus) - 1) |-> 0]
    /\ consumer_cursor' = 0
    /\ producer_cursor' = 0
    /\ history' = Append(history,
           Returned(t, "lockless_mpmc_queue", NoIndex, QUEUE_SIZE, TRUE))
    /\ UNCHANGED <<TQueueVars, pc, NewElement, Output, CurrentConsumerCursor,
                   CurrentProducerCursor, ClaimedIndex, current_value>>

NextRound ==
    \/ \E TQueueSize \in 0..(SizeModulus - 1) : TMPMCQueue_Construct(Main, TQueueSize)
    \/ \E QUEUE_SIZE \in 1..(CursorModulus - 1) :
          lockless_mpmc_queue_Construct(Main, QUEUE_SIZE)

SpecRound == InitRound /\ [][NextRound]_vars

(***************************************************************************)
(* The second TMPMCQueue of MPMCQueue.h (lines 729-866).  Its constructor  *)
(* (736-744) does not round: IndexMask = TQueueSize - 1 and RingBuffer is  *)
(* a zeroed block of TQueueSize elements, or nullptr when the allocation   *)
(* failed.  Its Enqueue (766-788) and Dequeue (802-823) make the same      *)
(* loads, test and fetch_add as the first one's (the statements of lines   *)
(* 768-777 and 804-813 are those of 270-279 and 330-340), then test        *)
(* RingBuffer against nullptr before they touch the slot.                  *)
(***************************************************************************)
nullptr == <<>>

\* CalculateIndex (lines 839-842): IndexValue & GetIndexMask()
CalculateIndex(IndexValue) == BitAnd(IndexValue, IndexMask)

\* lines 736-744; a TQueueSize of 0 is taken with the allocation yielding
\* nullptr
InitSecond ==
    /\ \E TQueueSize \in 0..MaxQueueSize :
          /\ IndexMask = TQueueSize - 1
          /\ RingBuffer \in
                 (IF TQueueSize = 0 THEN {} ELSE {[i \in 0..(TQueueSize - 1) |-> 0]})
                     \cup {nullptr}
    /\ heap = IF RingBuffer = nullptr THEN Allocated({})
              ELSE Allocated({RingBufferBlock})
    /\ ConsumerCursor = 0
    /\ ProducerCursor = 0
    /\ LQueueUnused
    /\ ThreadsInit(Threads)

\* lines 779-787
Enqueue_Second_Write(t) ==
    /\ pc[t] = "Enqueue_Write"
    /\ IF RingBuffer = nullptr
       THEN /\ history' = Append(history,
                   Returned(t, "Enqueue", ClaimedIndex[t], NewElement[t],
                            BUFFER_NOT_INITIALIZED))
            /\ UNCHANGED RingBuffer
       ELSE /\ RingBuffer' =
                   [RingBuffer EXCEPT ![CalculateIndex(ClaimedIndex[t])] =
                        NewElement[t]]
            /\ history' = Append(history,
                   Returned(t, "Enqueue", ClaimedIndex[t], NewElement[t],
                            TRANSACTION_SUCCESS))
    /\ Return(t)
    /\ UNCHANGED <<heap, IndexMask, ProducerCursor, ConsumerCursor, LQueueVars, Output,
                   current_value>>

\* lines 815-822
Dequeue_Second_Read(t) ==
    /\ pc[t] = "Dequeue_Read"
    /\ IF RingBuffer = nullptr
       THEN /\ history' = Append(history,
                   Returned(t, "Dequeue", ClaimedIndex[t], Output[t],
                            BUFFER_NOT_INITIALIZED))
            /\ UNCHANGED Output
       ELSE /\ Output' =
                   [Output EXCEPT ![t] = RingBuffer[CalculateIndex(ClaimedIndex[t])]]
            /\ history' = Append(history,
                   Returned(t, "Dequeue", ClaimedIndex[t],
                            RingBuffer[CalculateIndex(ClaimedIndex[t])],
                            TRANSACTION_SUCCESS))
    /\ Return(t)
    /\ UNCHANGED <<heap, TQueueVars, LQueueVars, current_value>>

NextSecond ==
    \E t \in Threads :
        \/ MayCall /\ \E v \in Values : Enqueue_LoadConsumer(t, v)
        \/ Enqueue_LoadProducer(t)
        \/ Enqueue_Claim(t)
        \/ Enqueue_Second_Write(t)
        \/ MayCall /\ Dequeue_LoadConsumer(t)
        \/ Dequeue_LoadProducer(t)
        \/ Dequeue_Claim(t)
        \/ Dequeue_Second_Read(t)

SpecSecond == InitSecond /\ [][NextSecond]_vars

(***************************************************************************)
(* One thread calling Enqueue and Dequeue of the second TMPMCQueue in      *)
(* sequence, for any TQueueSize from 1 up; the allocation succeeded.       *)
(***************************************************************************)
InitSecondSeq ==
    /\ \E TQueueSize \in 1..MaxUnroundedSize :
          /\ IndexMask = TQueueSize - 1
          /\ RingBuffer = [i \in 0..(TQueueSize - 1) |-> 0]
    /\ heap = Allocated({RingBufferBlock})
    /\ ConsumerCursor = 0
    /\ ProducerCursor = 0
    /\ LQueueUnused
    /\ ThreadsInit(Threads)

NextSecondSeq ==
    \/ MayCallSeq /\ \E v \in Values : Enqueue_LoadConsumer(Main, v)
    \/ Enqueue_LoadProducer(Main)
    \/ Enqueue_Claim(Main)
    \/ Enqueue_Second_Write(Main)
    \/ MayCallSeq /\ Dequeue_LoadConsumer(Main)
    \/ Dequeue_LoadProducer(Main)
    \/ Dequeue_Claim(Main)
    \/ Dequeue_Second_Read(Main)

SpecSecondSeq == InitSecondSeq /\ [][NextSecondSeq]_vars

(***************************************************************************)
(* Either queue, used by any number of threads: a TMPMCQueue through its   *)
(* fetch_add operations, or a lockless_mpmc_queue through push and pop.    *)
(***************************************************************************)
InitEither == Init \/ InitL

NextEither ==
    \/ RingBuffer # <<>> /\ NextFA
    \/ ring_buffer # <<>> /\ NextL

SpecEither == InitEither /\ [][NextEither]_vars

(***************************************************************************)
(* Either queue, constructed for a small size or for the largest size its  *)
(* constructor accepts, and then used by any number of threads.            *)
(***************************************************************************)
AcceptedTQueueSizes == QueueSizes \cup {SizeModulus - 2}
AcceptedQUEUE_SIZEs == QueueSizes \cup {CursorModulus - 1}

InitAnySize ==
    \/ /\ \E TQueueSize \in AcceptedTQueueSizes : TQueueInit(TQueueSize)
       /\ LQueueUnused
       /\ ThreadsInit(Threads)
    \/ /\ \E QUEUE_SIZE \in AcceptedQUEUE_SIZEs : LQueueInit(QUEUE_SIZE)
       /\ TQueueUnused
       /\ ThreadsInit(Threads)

NextAnySize ==
    \/ ~TQueueUnused /\ NextFA
    \/ ~LQueueUnused /\ NextL

SpecAnySize == InitAnySize /\ [][NextAnySize]_vars

(***************************************************************************)
(* The operations that claim in a retry loop: EnqueueCAS and DequeueCAS of *)
(* a TMPMCQueue, or push and pop of a lockless_mpmc_queue, called by any   *)
(* number of threads.  Every thread that is inside a call is scheduled     *)
(* again, and a compare_exchange_weak that is tried again and again on a   *)
(* cursor that holds the expected value does not fail for ever.            *)
(***************************************************************************)
NextRetry ==
    \/ RingBuffer # <<>> /\ NextCAS
    \/ ring_buffer # <<>> /\ NextL

StepOfRetryCall(t) ==
    \/ EnqueueCAS_LoadProducer(t)
    \/ EnqueueCAS_CompareAndSet(t)
    \/ EnqueueCAS_Reload(t)
    \/ EnqueueCAS_Write(t)
    \/ DequeueCAS_LoadProducer(t)
    \/ DequeueCAS_CompareAndSet(t)
    \/ DequeueCAS_Reload(t)
    \/ DequeueCAS_Read(t)
    \/ push_LoadProducer(t)
    \/ push_LoadConsumer(t)
    \/ push_custom_cas_Load(t)
    \/ push_custom_cas_Store(t)
    \/ push_Write(t)
    \/ pop_LoadConsumer(t)
    \/ pop_LoadProducer(t)
    \/ pop_custom_cas_Load(t)
    \/ pop_custom_cas_Store(t)
    \/ pop_Read(t)

CompareAndSetSucceeds(t) ==
    \/ EnqueueCAS_CompareAndSet(t) /\ pc'[t] = "EnqueueCAS_Write"
    \/ DequeueCAS_CompareAndSet(t) /\ pc'[t] = "DequeueCAS_Read"

SpecRetryFair ==
    /\ InitEither
    /\ [][NextRetry]_vars
    /\ \A t \in Threads :
          WF_vars(StepOfRetryCall(t)) /\ SF_vars(CompareAndSetSucceeds(t))

(***************************************************************************)
(* Reading the history.                                                    *)
(***************************************************************************)
IsEnqueue(h) == h.op \in {"Enqueue", "EnqueueCAS"}
IsDequeue(h) == h.op \in {"Dequeue", "DequeueCAS"}
EnqueueSucceeded(h) == IsEnqueue(h) /\ h.status = TRANSACTION_SUCCESS
DequeueSucceeded(h) == IsDequeue(h) /\ h.status = TRANSACTION_SUCCESS

SuccessfulEnqueues == SelectSeq(history, EnqueueSucceeded)
SuccessfulDequeues == SelectSeq(history, DequeueSucceeded)

ValuesOf(seq) == [i \in 1..Len(seq) |-> seq[i].val]

RECURSIVE BagOf(_)
BagOf(seq) ==
    IF seq = <<>> THEN EmptyBag ELSE SetToBag({Head(seq)}) (+) BagOf(Tail(seq))

EnqueuedBag == BagOf(ValuesOf(SuccessfulEnqueues))
DequeuedBag == BagOf(ValuesOf(SuccessfulDequeues))

IsPrefix(a, b) == Len(a) <= Len(b) /\ \A i \in 1..Len(a) : a[i] = b[i]

Quiescent == \A t \in DOMAIN pc : pc[t] = "idle"

\* threads that hold a claimed cursor value and have not yet accessed the slot
Writing(t) == pc[t] \in {"Enqueue_Write", "EnqueueCAS_Write"}
Reading(t) == pc[t] \in {"Dequeue_Read", "DequeueCAS_Read"}

(***************************************************************************)
(* C1.  Capacity bound: on a queue of capacity C with no Dequeue calls the *)
(* first C Enqueue calls succeed and the (C+1)-th returns BUFFER_FULL;     *)
(* after that, one successful Dequeue makes exactly one further Enqueue    *)
(* succeed (the next one after it is BUFFER_FULL again).                   *)
(***************************************************************************)
OnlyEnqueuesUpTo(k) == \A i \in 1..k : history[i].op = "Enqueue"

C1_CapacityBound ==
    /\ \A k \in 1..Len(history) :
          OnlyEnqueuesUpTo(k) =>
              /\ (k <= Capacity => history[k].status = TRANSACTION_SUCCESS)
              /\ (k = Capacity + 1 => history[k].status = BUFFER_FULL)
    /\ ( /\ Len(history) >= Capacity + 3
         /\ OnlyEnqueuesUpTo(Capacity + 1)
         /\ DequeueSucceeded(history[Capacity + 2])
         /\ history[Capacity + 3].op = "Enqueue" )
       => /\ history[Capacity + 3].status = TRANSACTION_SUCCESS
          /\ ( Len(history) >= Capacity + 4 /\ history[Capacity + 4].op = "Enqueue"
               => history[Capacity + 4].status = BUFFER_FULL )

(***************************************************************************)
(* C2.  Exactly-once delivery: under any interleaving, the values returned *)
(* by successful Dequeues are, counted with multiplicity, values of        *)
(* Enqueues that succeeded or hold their claim (none twice, none           *)
(* invented); once no call is in flight and at least as many Dequeues as   *)
(* Enqueues have succeeded, every enqueued value has been returned; and    *)
(* the Dequeue with the i-th smallest claimed cursor value returns the     *)
(* value of the Enqueue with the i-th smallest claimed cursor value.       *)
(***************************************************************************)
RECURSIVE BagOfWrites(_)
BagOfWrites(T) ==
    IF T = {} THEN EmptyBag
    ELSE LET t == CHOOSE u \in T : TRUE
         IN  SetToBag({NewElement[t]}) (+) BagOfWrites(T \ {t})

ClaimedBag == BagOfWrites({t \in DOMAIN pc : Writing(t)})

Rank(seq, i) == Cardinality({j \in 1..Len(seq) : seq[j].idx < seq[i].idx})

C2_ExactlyOnce ==
    /\ DequeuedBag \sqsubseteq (EnqueuedBag (+) ClaimedBag)
    /\ (Quiescent /\ Len(SuccessfulDequeues) >= Len(SuccessfulEnqueues))
           => EnqueuedBag \sqsubseteq DequeuedBag
    /\ \A i \in 1..Len(SuccessfulDequeues) : \A j \in 1..Len(SuccessfulEnqueues) :
           Rank(SuccessfulDequeues, i) = Rank(SuccessfulEnqueues, j)
               => SuccessfulDequeues[i].val = SuccessfulEnqueues[j].val

(***************************************************************************)
(* C3.  No lost or duplicated items: when NumProducers producers have each *)
(* called Enqueue ItemsPerProducer times on a queue with room for all of   *)
(* it and a single consumer then called Dequeue until BUFFER_EMPTY, every  *)
(* Enqueue succeeded, the consumer received exactly                        *)
(* NumProducers * ItemsPerProducer items, and the bag of received values   *)
(* is the bag of enqueued values.                                          *)
(***************************************************************************)
C3_NoLostOrDuplicatedItems ==
    Drained =>
        /\ Len(SuccessfulEnqueues) = TotalItems
        /\ Len(SuccessfulDequeues) = TotalItems
        /\ DequeuedBag = EnqueuedBag

\* the drain is over, and the producers' calls overlapped: the first two
\* Enqueues to return came from different threads and hold different values
C3_Witness ==
    /\ Drained
    /\ Len(SuccessfulDequeues) = TotalItems
    /\ history[1].t # history[2].t
    /\ history[1].val # history[2].val
    /\ history[1].idx > history[2].idx

(***************************************************************************)
(* C4.  Single-producer/single-consumer FIFO: with one producer and one    *)
(* consumer running concurrently, the values returned by the successful    *)
(* Dequeues so far are, in order, a prefix of the values passed to the     *)
(* Enqueues that succeeded (the one in flight that has claimed its slot    *)
(* included).                                                              *)
(***************************************************************************)
EnqueuedSoFar ==
    ValuesOf(SuccessfulEnqueues) \o
        (IF Writing(Producer) THEN <<NewElement[Producer]>> ELSE <<>>)

C4_SPSC_FIFO == IsPrefix(ValuesOf(SuccessfulDequeues), EnqueuedSoFar)

(***************************************************************************)
(* C5.  Sequential refinement of a bounded FIFO of capacity C: in a        *)
(* single-threaded run every call returns what the abstract queue returns: *)
(* Enqueue is BUFFER_FULL exactly when C items are held, Dequeue is        *)
(* BUFFER_EMPTY exactly when none is held, otherwise Dequeue returns the   *)
(* oldest held value.                                                      *)
(***************************************************************************)
RECURSIVE AbstractFIFO(_)
AbstractFIFO(n) ==
    IF n = 0 THEN <<>>
    ELSE LET q == AbstractFIFO(n - 1)
             h == history[n]
         IN  IF h.op = "Enqueue"
             THEN (IF Len(q) < Capacity THEN Append(q, h.val) ELSE q)
             ELSE (IF q = <<>> THEN q ELSE Tail(q))

C5_RefinesBoundedFIFO ==
    \A n \in 1..Len(history) :
        LET q == AbstractFIFO(n - 1)
            h == history[n]
        IN  IF h.op = "Enqueue"
            THEN h.status = (IF Len(q) < Capacity THEN TRANSACTION_SUCCESS
                                                  ELSE BUFFER_FULL)
            ELSE IF q = <<>>
                 THEN h.status = BUFFER_EMPTY
                 ELSE h.status = TRANSACTION_SUCCESS /\ h.val = Head(q)

(***************************************************************************)
(* C6.  Occupancy never exceeds capacity: in every reachable state         *)
(* ProducerCursor - ConsumerCursor <= Capacity.                            *)
(***************************************************************************)
C6_OccupancyWithinCapacity == ProducerCursor - ConsumerCursor <= Capacity

(***************************************************************************)
(* C7.  The consumer cursor never overtakes the producer cursor: in every  *)
(* reachable state ConsumerCursor <= ProducerCursor.                       *)
(***************************************************************************)
C7_ConsumerNeverOvertakes == ConsumerCursor <= ProducerCursor

(***************************************************************************)
(* C8.  Unique claims in TMPMCQueue: no two Enqueue/EnqueueCAS calls ever  *)
(* obtain the same value of the producer cursor as their ClaimedIndex, and *)
(* no two Dequeue/DequeueCAS calls the same value of the consumer cursor   *)
(* (calls that returned and calls that hold their claim alike).            *)
(***************************************************************************)
EnqueueClaimsOf(k) ==
    Cardinality({i \in 1..Len(history) :
                    EnqueueSucceeded(history[i]) /\ history[i].idx = k})
    + Cardinality({t \in DOMAIN pc : Writing(t) /\ ClaimedIndex[t] = k})

DequeueClaimsOf(k) ==
    Cardinality({i \in 1..Len(history) :
                    DequeueSucceeded(history[i]) /\ history[i].idx = k})
    + Cardinality({t \in DOMAIN pc : Reading(t) /\ ClaimedIndex[t] = k})

C8_UniqueClaims ==
    \A k \in 0..MaxOps : EnqueueClaimsOf(k) <= 1 /\ DequeueClaimsOf(k) <= 1

\* both kinds of producer claim and both kinds of consumer claim have been
\* made, by different threads
C8_Witness ==
    \E a, b, c, d \in 1..Len(history) :
        /\ history[a].op = "Enqueue" /\ EnqueueSucceeded(history[a])
        /\ history[b].op = "EnqueueCAS" /\ EnqueueSucceeded(history[b])
        /\ history[a].t # history[b].t
        /\ history[c].op = "Dequeue" /\ DequeueSucceeded(history[c])
        /\ history[d].op = "DequeueCAS" /\ DequeueSucceeded(history[d])
        /\ history[c].t # history[d].t

(***************************************************************************)
(* C9.  Unique claims in lockless_mpmc_queue: no two push calls that       *)
(* return true write with the same value of the producer cursor, and no    *)
(* two pop calls that return true read with the same value of the consumer *)
(* cursor.                                                                 *)
(***************************************************************************)
PushSucceeded(h) == h.op = "push" /\ h.status = TRUE
PopSucceeded(h) == h.op = "pop" /\ h.status = TRUE

C9_UniqueClaimsLockless ==
    \A i, j \in 1..Len(history) :
        i # j =>
            /\ (PushSucceeded(history[i]) /\ PushSucceeded(history[j])
                    => history[i].idx # history[j].idx)
            /\ (PopSucceeded(history[i]) /\ PopSucceeded(history[j])
                    => history[i].idx # history[j].idx)

(***************************************************************************)
(* C10.  Slot-exclusive access: in no reachable state do two threads both  *)
(* hold a claim, not yet completed by their slot access, on the same       *)
(* physical slot (ClaimedIndex & IndexMask) when one of the two accesses   *)
(* is an Enqueue's write.                                                  *)
(***************************************************************************)
C10_SlotExclusiveAccess ==
    \A t1, t2 \in DOMAIN pc :
        ( /\ t1 # t2
          /\ Writing(t1)
          /\ Writing(t2) \/ Reading(t2) )
        => ClaimedIndexMask(ClaimedIndex[t1]) # ClaimedIndexMask(ClaimedIndex[t2])

(***************************************************************************)
(* C11.  Slot-level FIFO: for every cursor value k, the value returned by  *)
(* the Dequeue that claimed consumer cursor value k is the value passed to *)
(* the Enqueue that claimed producer cursor value k (an Enqueue that       *)
(* returned, or one that holds the claim and has yet to write), under any  *)
(* interleaving of producers and consumers.                                *)
(***************************************************************************)
C11_SlotLevelFIFO ==
    \A i \in 1..Len(history) :
        DequeueSucceeded(history[i]) =>
            /\ \A j \in 1..Len(history) :
                  (EnqueueSucceeded(history[j]) /\ history[j].idx = history[i].idx)
                      => history[i].val = history[j].val
            /\ \A t \in DOMAIN pc :
                  (Writing(t) /\ ClaimedIndex[t] = history[i].idx)
                      => history[i].val = NewElement[t]

(***************************************************************************)
(* C12.  Empty bound: a Dequeue / pop that runs while no other call is in  *)
(* flight, on a queue that is freshly constructed or on which every        *)
(* successful Enqueue / push of a cursor value has been matched by a       *)
(* successful Dequeue / pop of that cursor value, returns BUFFER_EMPTY /   *)
(* false.                                                                  *)
(***************************************************************************)
PushesOf(k) ==
    Cardinality({i \in 1..Len(history) :
                    PushSucceeded(history[i]) /\ history[i].idx = k})
PopsOf(k) ==
    Cardinality({i \in 1..Len(history) :
                    PopSucceeded(history[i]) /\ history[i].idx = k})

\* every enqueued item has been dequeued
FullyDrained ==
    /\ \A k \in 0..MaxOps : EnqueueClaimsOf(k) = DequeueClaimsOf(k)
    /\ \A k \in 0..(CursorModulus - 1) : PushesOf(k) = PopsOf(k)

\* thread t is the only one inside a call, and is at the step named at
OnlyCallAt(t, at) == pc[t] = at /\ \A u \in DOMAIN pc : u # t => pc[u] = "idle"

LastReturned(h) == h[Len(h)]

Committed ==
    {"Enqueue_Write", "EnqueueCAS_Write", "Dequeue_Read", "DequeueCAS_Read",
     "push_Write", "pop_Read"}

Succeeded(h) ==
    IF h.op \in {"push", "pop"} THEN h.status = TRUE
                                ELSE h.status = TRANSACTION_SUCCESS

C13_FullEmptySideEffectFree ==
    [][ \A t \in DOMAIN pc :
          ( /\ pc'[t] # pc[t]
            /\ \/ TQueueVars' # TQueueVars
               \/ LQueueVars' # LQueueVars
               \/ Output'[t] # Output[t]
               \/ pc[t] \in Committed )
          => IF pc'[t] = "idle"
             THEN Succeeded(LastReturned(history'))
             ELSE pc'[t] \in Committed ]_vars

\* an Enqueue has returned BUFFER_FULL on a queue that had been written to
\* and read from
C13_Witness ==
    /\ \E i \in 1..Len(history) :
          history[i].op = "Enqueue" /\ history[i].status = BUFFER_FULL
    /\ \E i \in 1..Len(history) : DequeueSucceeded(history[i])
    /\ \E i \in DOMAIN RingBuffer : RingBuffer[i] # Indeterminate

(***************************************************************************)
(* C14.  size() bound: every value returned by size(), at any time and     *)
(* concurrently with any push / pop, lies in 0..capacity, where capacity   *)
(* is index_mask + 1; full() returns true exactly when the size it read is *)
(* the capacity, and empty() exactly when it is 0.                         *)
(***************************************************************************)
C14_SizeWithinCapacity ==
    \A i \in 1..Len(history) :
        history[i].op \in Observers =>
            /\ 0 <= history[i].val /\ history[i].val <= index_mask + 1
            /\ history[i].op = "full" =>
                   (history[i].status <=> history[i].val = index_mask + 1)
            /\ history[i].op = "empty" =>
                   (history[i].status <=> history[i].val = 0)

(***************************************************************************)
(* C15.  Capacity rounding: for every requested size n > 0 the number of   *)
(* slots the constructor allocates is the smallest power of two >= n and   *)
(* the index mask is that number minus one, in TMPMCQueue's constructor    *)
(* and in lockless_mpmc_queue's (ceil_to_nearest_power_of_two_minus_one).  *)
(***************************************************************************)
SmallestPowerOfTwoAtLeast(n) ==
    LET powers == {2 ^ k : k \in 0..SizeBits}
    IN  CHOOSE q \in powers : q >= n /\ \A r \in powers : r >= n => q <= r

C15_CapacityRounding ==
    \A i \in 1..Len(history) :
        /\ (history[i].op = "TMPMCQueue" /\ history[i].val > 0)
              => /\ Cardinality(DOMAIN RingBuffer) =
                        SmallestPowerOfTwoAtLeast(history[i].val)
                 /\ IndexMask = SmallestPowerOfTwoAtLeast(history[i].val) - 1
        /\ (history[i].op = "lockless_mpmc_queue" /\ history[i].val > 0)
              => /\ Cardinality(DOMAIN ring_buffer) =
                        SmallestPowerOfTwoAtLeast(history[i].val)
                 /\ index_mask = SmallestPowerOfTwoAtLeast(history[i].val) - 1

(***************************************************************************)
(* C16.  BUFFER_NOT_INITIALIZED is surfaced distinctly: on a queue whose   *)
(* ring buffer is unset (RingBuffer is nullptr) every Enqueue and every    *)
(* Dequeue returns BUFFER_NOT_INITIALIZED, never BUFFER_FULL, BUFFER_EMPTY *)
(* or TRANSACTION_SUCCESS.                                                 *)
(***************************************************************************)
C16_NotInitializedSurfaced ==
    RingBuffer = nullptr =>
        \A i \in 1..Len(history) : history[i].status = BUFFER_NOT_INITIALIZED

(***************************************************************************)
(* C17.  Operations never block: every call of the fetch_add Enqueue or    *)
(* Dequeue returns after a bounded number of its own steps, whatever the   *)
(* other threads do, even when another thread stops for ever in the middle *)
(* of its call.  Every step of a call moves the call forward (it never     *)
(* goes back to an earlier statement), and a thread that keeps being       *)
(* scheduled returns from the call it is in.                               *)
(***************************************************************************)
\* how far into Enqueue / Dequeue a thread is
PositionInCall(at) ==
    CASE at = "idle" -> 0
      [] at \in {"Enqueue_LoadProducer", "Dequeue_LoadProducer"} -> 1
      [] at \in {"Enqueue_Claim", "Dequeue_Claim"} -> 2
      [] at \in {"Enqueue_Write", "Dequeue_Read"} -> 3

C17_NeverBlocks ==
    /\ [][ \A t \in DOMAIN pc :
             pc'[t] # pc[t] =>
                 \/ pc'[t] = "idle"
                 \/ PositionInCall(pc'[t]) > PositionInCall(pc[t]) ]_vars
    /\ (pc[Main] # "idle") ~> (pc[Main] = "idle")

\* Main has returned from three calls in a row, the last a successful
\* Dequeue, while the other thread stood still between its claim and its
\* slot access
C17_Witness ==
    /\ Len(history) = 3
    /\ \A i \in 1..3 : history[i].t = Main
    /\ DequeueSucceeded(history[3])
    /\ \E u \in DOMAIN pc : u # Main /\ pc[u] \in Committed

(***************************************************************************)
(* C18.  The compare-and-set variants re-validate on every retry: the      *)
(* compare-and-set of a DequeueCAS succeeds on a cursor value only while   *)
(* that value is below ProducerCursor, and the compare-and-set of an       *)
(* EnqueueCAS never succeeds while the queue is full (ProducerCursor -     *)
(* ConsumerCursor has reached the capacity).                               *)
(***************************************************************************)
C18_CASRevalidates ==
    [][ \A t \in DOMAIN pc :
          /\ (pc[t] = "DequeueCAS_CompareAndSet" /\ pc'[t] = "DequeueCAS_Read")
                 => ClaimedIndex'[t] < ProducerCursor
          /\ (pc[t] = "EnqueueCAS_CompareAndSet" /\ pc'[t] = "EnqueueCAS_Write")
                 => ProducerCursor - ConsumerCursor < Capacity ]_vars

(***************************************************************************)
(* C19.  No overwrite of an unconsumed value: an Enqueue / push never      *)
(* writes into a physical slot that holds a value which was successfully   *)
(* enqueued and has not been read by a Dequeue / pop: when two successful  *)
(* writes went to the same slot, the cursor value of the earlier one was   *)
(* dequeued before the later one wrote.                                    *)
(***************************************************************************)
C19_NoOverwriteOfUnconsumed ==
    \A i, j \in 1..Len(history) :
        /\ ( /\ i < j
             /\ EnqueueSucceeded(history[i]) /\ EnqueueSucceeded(history[j])
             /\ ClaimedIndexMask(history[i].idx) = ClaimedIndexMask(history[j].idx) )
           => \E d \in 1..(j - 1) :
                 DequeueSucceeded(history[d]) /\ history[d].idx = history[i].idx
        /\ ( /\ i < j
             /\ PushSucceeded(history[i]) /\ PushSucceeded(history[j])
             /\ BitAnd(history[i].idx, index_mask) = BitAnd(history[j].idx, index_mask) )
           => \E d \in 1..(j - 1) :
                 PopSucceeded(history[d]) /\ history[d].idx = history[i].idx

(***************************************************************************)
(* C20.  Cursors are monotonic: no step of any interleaving of concurrent  *)
(* push and pop calls of a lockless_mpmc_queue decreases producer_cursor   *)
(* or consumer_cursor.                                                     *)
(***************************************************************************)
C20_CursorsMonotonic ==
    [][ /\ producer_cursor' >= producer_cursor
        /\ consumer_cursor' >= consumer_cursor ]_vars

(***************************************************************************)
(* C21.  Cursors count claims: in every state of a lockless_mpmc_queue     *)
(* with no call in flight, producer_cursor is the number of push calls     *)
(* that returned true and consumer_cursor the number of pop calls that     *)
(* returned true since construction (counted in the cursors' width).       *)
(***************************************************************************)
C21_CursorsCountClaims ==
    Quiescent =>
        /\ producer_cursor = Len(SelectSeq(history, PushSucceeded)) % CursorModulus
        /\ consumer_cursor = Len(SelectSeq(history, PopSucceeded)) % CursorModulus

(***************************************************************************)
(* C22.  Lock-freedom of the retry loops, as stated: a compare-and-set     *)
(* attempt of EnqueueCAS / DequeueCAS / push / pop fails only when the     *)
(* cursor no longer holds the value the thread expects (another thread     *)
(* changed it in between), and every call returns once no more calls are   *)
(* issued.                                                                 *)
(***************************************************************************)
FailsOnlyOnChange ==
    [][ \A t \in DOMAIN pc :
          /\ (pc[t] = "EnqueueCAS_CompareAndSet" /\ pc'[t] = "EnqueueCAS_Reload")
                 => ProducerCursor # ClaimedIndex[t]
          /\ (pc[t] = "DequeueCAS_CompareAndSet" /\ pc'[t] = "DequeueCAS_Reload")
                 => ConsumerCursor # ClaimedIndex[t]
          /\ (pc[t] = "push_custom_cas_Load" /\ pc'[t] = "push_LoadProducer")
                 => producer_cursor # CurrentProducerCursor[t]
          /\ (pc[t] = "pop_custom_cas_Load" /\ pc'[t] = "pop_LoadConsumer")
                 => consumer_cursor # CurrentConsumerCursor[t] ]_vars

EveryCallReturns == \A t \in Threads : (pc[t] # "idle") ~> (pc[t] = "idle")

C23_FailedAttemptMutatesNothing ==
    [][ \A t \in DOMAIN pc :
          (pc'[t] # pc[t] /\ pc[t] \notin Committed /\ pc'[t] \notin Committed)
              => UNCHANGED <<heap, TQueueVars, LQueueVars>> ]_vars

\* a thread is in the retry loop of EnqueueCAS after the compare-and-set of
\* another thread, which now holds the claim, made its own fail
C23_Witness ==
    \E t, u \in DOMAIN pc :
        /\ t # u
        /\ pc[t] = "EnqueueCAS_Reload"
        /\ pc[u] = "EnqueueCAS_Write"
        /\ ClaimedIndex[u] = CurrentProducerCursor[t]
        /\ ProducerCursor = CurrentProducerCursor[t] + 1

(***************************************************************************)
(* C24.  Index mapping is injective over one window: in the TMPMCQueue     *)
(* that sets IndexMask = TQueueSize - 1 without rounding, for every        *)
(* TQueueSize > 0 any TQueueSize consecutive cursor values map through     *)
(* CalculateIndex to pairwise distinct slots: two successful Enqueues      *)
(* whose cursor values are less than TQueueSize apart wrote different      *)
(* slots.                                                                  *)
(***************************************************************************)
C24_IndexMappingInjective ==
    \A i, j \in 1..Len(history) :
        ( /\ EnqueueSucceeded(history[i]) /\ EnqueueSucceeded(history[j])
          /\ history[i].idx < history[j].idx
          /\ history[j].idx - history[i].idx < Cardinality(DOMAIN RingBuffer) )
        => CalculateIndex(history[i].idx) # CalculateIndex(history[j].idx)

(***************************************************************************)
(* C25.  The masked index stays in bounds: whatever cursor value a call    *)
(* has claimed, the physical index (cursor & index mask) with which it     *)
(* reads or writes the ring buffer lies in 0 .. (allocated slots - 1).     *)
(***************************************************************************)
C25_MaskedIndexInBounds ==
    \A t \in DOMAIN pc :
        /\ (Writing(t) \/ Reading(t))
              => ClaimedIndexMask(ClaimedIndex[t]) \in DOMAIN RingBuffer
        /\ pc[t] = "push_Write"
              => BitAnd(CurrentProducerCursor[t], index_mask) \in DOMAIN ring_buffer
        /\ pc[t] = "pop_Read"
              => BitAnd(CurrentConsumerCursor[t], index_mask) \in DOMAIN ring_buffer

(***************************************************************************)
(* C26.  The ABA hazard on cursor reuse is reachable.  A push that read    *)
(* producer cursor value v and passed the test for "full" is suspended     *)
(* before its compare-and-swap; the other threads then advance the         *)
(* producer cursor by exactly 2^CursorBits, so that it holds v again, and  *)
(* move the consumer cursor so that the test, made now, would say "full".  *)
(* From every such state the compare-and-swap of the suspended push        *)
(* succeeds: it goes on to store v + 1 and to write its slot.              *)
(***************************************************************************)
PushesReturnedByOthers(t) ==
    {i \in 1..Len(history) :
        history[i].op = "push" /\ history[i].status = TRUE /\ history[i].t # t}

SuspendedAcrossWrap(t) ==
    /\ pc[t] = "push_custom_cas_Load"
    /\ CallsStartedBy(t) = 1
    /\ Cardinality(PushesReturnedByOthers(t)) = CursorModulus
    /\ \A u \in DOMAIN pc : u # t => pc[u] = "idle"
    /\ producer_cursor = CurrentProducerCursor[t]
    /\ CurrentConsumerCursor[t] # consumer_cursor
    /\ (CurrentProducerCursor[t] + 1) % CursorModulus = consumer_cursor

C26_ABAReachable ==
    [][\A t \in DOMAIN pc :
          (SuspendedAcrossWrap(t) /\ push_custom_cas_Load(t))
             => pc'[t] = "push_custom_cas_Store"]_vars

C26_Witness == \E t \in DOMAIN pc : SuspendedAcrossWrap(t)

(***************************************************************************)
(* The lifetime of a queue: it is constructed, any number of threads call  *)
(* its operations, and when no call is in progress one thread runs its     *)
(* destructor; nothing is called afterwards.  The history records the      *)
(* destructor.                                                             *)
(***************************************************************************)
Destructed ==
    \E i \in 1..Len(history) :
        history[i].op \in {"~TMPMCQueue", "~lockless_mpmc_queue"}

\* TMPMCQueue::~TMPMCQueue (MPMCQueue.h 248-255)
TMPMCQueue_Destruct(t) ==
    /\ RingBufferBlock \in DOMAIN heap
    /\ \A u \in DOMAIN pc : pc[u] = "idle"
    /\ IF RingBuffer = nullptr
       THEN UNCHANGED <<heap, RingBuffer>>
       ELSE /\ heap' = free(RingBufferBlock)
            /\ RingBuffer' = nullptr
    /\ history' = Append(history, Returned(t, "~TMPMCQueue", NoIndex, 0, TRUE))
    /\ UNCHANGED <<IndexMask, ProducerCursor, ConsumerCursor, LQueueVars, pc,
                   NewElement, Output, CurrentConsumerCursor, CurrentProducerCursor,
                   ClaimedIndex, current_value>>

\* lockless_mpmc_queue::~lockless_mpmc_queue (LocklessMPMCQueue.h 62-68);
\* data.ring_buffer keeps its value
lockless_mpmc_queue_Destruct(t) ==
    /\ ring_buffer_block \in DOMAIN heap
    /\ \A u \in DOMAIN pc : pc[u] = "idle"
    /\ IF ring_buffer # nullptr
       THEN heap' = free(ring_buffer_block)
       ELSE UNCHANGED heap
    /\ history' = Append(history,
           Returned(t, "~lockless_mpmc_queue", NoIndex, 0, TRUE))
    /\ UNCHANGED <<TQueueVars, LQueueVars, pc, NewElement, Output,
                   CurrentConsumerCursor, CurrentProducerCursor, ClaimedIndex,
                   current_value>>

NextLifetime ==
    \/ ~Destructed /\ NextEither
    \/ ~Destructed /\ TMPMCQueue_Destruct(Main)
    \/ ~Destructed /\ lockless_mpmc_queue_Destruct(Main)

SpecLifetime == InitEither /\ [][NextLifetime]_vars

(***************************************************************************)
(* C27.  Teardown releases storage exactly once: after the destructor of   *)
(* a constructed queue has run, every block its constructor allocated      *)
(* (the ring-buffer block and, in TMPMCQueue, the Data block of each node) *)
(* has been freed exactly once, and none remains allocated.                *)
(***************************************************************************)
C27_TeardownReleasesStorage ==
    Destructed => \A block \in DOMAIN heap : heap[block] = 1

(***************************************************************************)
(* C28.  No invented values: every value a successful Dequeue / pop        *)
(* returned was passed to an Enqueue / push whose slot write had completed *)
(* before the Dequeue / pop read the slot.  (A call is recorded in the     *)
(* history by the step that accesses the slot, so the order of the history *)
(* is the order of the slot accesses.)                                     *)
(***************************************************************************)
IsInsert(h) == h.op \in {"Enqueue", "EnqueueCAS", "push"}
IsRemove(h) == h.op \in {"Dequeue", "DequeueCAS", "pop"}

C28_NoInventedValues ==
    \A i \in 1..Len(history) :
        (IsRemove(history[i]) /\ Succeeded(history[i]))
           => \E j \in 1..(i - 1) :
                 /\ IsInsert(history[j]) /\ Succeeded(history[j])
                 /\ history[j].val = history[i].val

(***************************************************************************)
(* One thread calling push, pop, size, empty and full of one               *)
(* lockless_mpmc_queue, one call after the other.                          *)
(***************************************************************************)
NextLSeq ==
    \/ MayCallSeq /\ \E v \in Values : push_Call(Main, v)
    \/ push_LoadProducer(Main)
    \/ push_LoadConsumer(Main)
    \/ push_custom_cas_Load(Main)
    \/ push_custom_cas_Store(Main)
    \/ push_Write(Main)
    \/ MayCallSeq /\ pop_Call(Main)
    \/ pop_LoadConsumer(Main)
    \/ pop_LoadProducer(Main)
    \/ pop_custom_cas_Load(Main)
    \/ pop_custom_cas_Store(Main)
    \/ pop_Read(Main)
    \/ MayCallSeq /\ \E f \in Observers : size_LoadProducer(Main, f)
    \/ size_LoadConsumer(Main)

SpecLSeq == InitL /\ [][NextLSeq]_vars

(***************************************************************************)
(* C29.  full() and push agree, empty() and pop agree: when no call is in  *)
(* progress, full() returns true if and only if the next push returns      *)
(* false, and empty() returns true if and only if the next pop returns     *)
(* false.  With one thread, a call and the next call are neighbours in the *)
(* history.                                                                *)
(***************************************************************************)
C29_FullAndPushAgree ==
    \A i \in 1..(Len(history) - 1) :
        /\ (history[i].op = "full" /\ history[i + 1].op = "push")
              => (history[i].status = TRUE <=> history[i + 1].status = FALSE)
        /\ (history[i].op = "empty" /\ history[i + 1].op = "pop")
              => (history[i].status = TRUE <=> history[i + 1].status = FALSE)

(***************************************************************************)
(* One thread calling push and pop of one lockless_mpmc_queue often enough *)
(* to take the producer cursor past the largest value of its CursorBits    *)
(* bits and to the distance at which push refuses.                         *)
(***************************************************************************)
CallsToFill == CursorModulus + 2
MayCallFill == CallsStarted < CallsToFill

NextLFill ==
    \/ MayCallFill /\ \E v \in Values : push_Call(Main, v)
    \/ push_LoadProducer(Main)
    \/ push_LoadConsumer(Main)
    \/ push_custom_cas_Load(Main)
    \/ push_custom_cas_Store(Main)
    \/ push_Write(Main)
    \/ MayCallFill /\ pop_Call(Main)
    \/ pop_LoadConsumer(Main)
    \/ pop_LoadProducer(Main)
    \/ pop_custom_cas_Load(Main)
    \/ pop_custom_cas_Store(Main)
    \/ pop_Read(Main)

SpecLFill == InitL /\ [][NextLFill]_vars

(***************************************************************************)
(* C30.  The full test under wrap-around: with cursors of CursorBits bits, *)
(* a single-threaded push returns false exactly when                       *)
(* (producer_cursor - consumer_cursor) mod 2^CursorBits is                 *)
(* 2^CursorBits - 1, whatever the number of slots is.  The step by which   *)
(* a push returns still has the producer cursor the push loaded in         *)
(* CurrentProducerCursor, and a push does not move the consumer cursor.    *)
(***************************************************************************)
PushReturns(t) ==
    /\ Len(history') = Len(history) + 1
    /\ history'[Len(history')].op = "push"
    /\ history'[Len(history')].t = t

C31_StateUnchangedOnError ==
    (RingBuffer = nullptr /\ Quiescent)
       => /\ ProducerCursor = 0
          /\ ConsumerCursor = 0

(***************************************************************************)
(* C32.  Operation frames: no step of an Enqueue / push changes the        *)
(* consumer cursor, no step of a Dequeue / pop changes the producer cursor *)
(* or the content of a ring-buffer slot, and no step changes the index     *)
(* mask.  The step of a thread belongs to the call the thread is in, or,   *)
(* when the thread was idle, to the call it enters.                        *)
(***************************************************************************)
StepsOfInsert ==
    {"Enqueue_LoadProducer", "Enqueue_Claim", "Enqueue_Write",
     "EnqueueCAS_LoadProducer", "EnqueueCAS_CompareAndSet", "EnqueueCAS_Reload",
     "EnqueueCAS_Write",
     "push_LoadProducer", "push_LoadConsumer", "push_custom_cas_Load",
     "push_custom_cas_Store", "push_Write"}

StepsOfRemove ==
    {"Dequeue_LoadProducer", "Dequeue_Claim", "Dequeue_Read",
     "DequeueCAS_LoadProducer", "DequeueCAS_CompareAndSet", "DequeueCAS_Reload",
     "DequeueCAS_Read",
     "pop_LoadConsumer", "pop_LoadProducer", "pop_custom_cas_Load",
     "pop_custom_cas_Store", "pop_Read"}

\* the call a step of thread t belongs to
CallOfStep(t) == IF pc[t] = "idle" THEN pc'[t] ELSE pc[t]

C32_OperationFrames ==
    [][/\ IndexMask' = IndexMask
       /\ index_mask' = index_mask
       /\ \A t \in DOMAIN pc :
             pc'[t] # pc[t] =>
                /\ CallOfStep(t) \in StepsOfInsert
                      => /\ ConsumerCursor' = ConsumerCursor
                         /\ consumer_cursor' = consumer_cursor
                /\ CallOfStep(t) \in StepsOfRemove
                      => /\ ProducerCursor' = ProducerCursor
                         /\ producer_cursor' = producer_cursor
                         /\ RingBuffer' = RingBuffer
                         /\ ring_buffer' = ring_buffer]_vars

C32_Witness ==
    /\ \A t \in DOMAIN pc : pc[t] = "idle"
    /\ \E i, j \in 1..Len(history) :
          /\ i < j
          /\ IsInsert(history[i]) /\ Succeeded(history[i])
          /\ IsRemove(history[j]) /\ Succeeded(history[j])
          /\ history[j].idx = history[i].idx
          /\ history[j].val = history[i].val
    /\ ProducerCursor + producer_cursor > 0
    /\ ConsumerCursor + consumer_cursor > 0

(***************************************************************************)
(* One thread calling Enqueue, EnqueueCAS, Dequeue and DequeueCAS of one   *)
(* TMPMCQueue, one call after the other, in any mixture.                   *)
(***************************************************************************)
NextSeqAll ==
    \/ NextSeq
    \/ MayCallSeq /\ \E v \in Values : EnqueueCAS_LoadConsumer(Main, v)
    \/ EnqueueCAS_LoadProducer(Main)
    \/ EnqueueCAS_CompareAndSet(Main)
    \/ EnqueueCAS_Reload(Main)
    \/ EnqueueCAS_Write(Main)
    \/ MayCallSeq /\ DequeueCAS_LoadConsumer(Main)
    \/ DequeueCAS_LoadProducer(Main)
    \/ DequeueCAS_CompareAndSet(Main)
    \/ DequeueCAS_Reload(Main)
    \/ DequeueCAS_Read(Main)

SpecSeqAll == Init /\ [][NextSeqAll]_vars

(***************************************************************************)
(* Enqueue (MPMCQueue.h 267-286) and Dequeue (327-348) run from call to    *)
(* return with nothing in between, on a queue q given by its cursors and   *)
(* slots: the queue afterwards, the status returned, the value dequeued.   *)
(***************************************************************************)
EnqueueSequential(q, v) ==
    IF q.ProducerCursor + 1 = q.ConsumerCursor
    THEN [queue |-> q, status |-> BUFFER_FULL, val |-> v]
    ELSE [queue |-> [q EXCEPT !.ProducerCursor = @ + 1,
                              !.RingBuffer =
                                  Store(@, ClaimedIndexMask(q.ProducerCursor), v)],
          status |-> TRANSACTION_SUCCESS,
          val |-> v]

DequeueSequential(q) ==
    IF q.ConsumerCursor = q.ProducerCursor
    THEN [queue |-> q, status |-> BUFFER_EMPTY, val |-> NoIndex]
    ELSE [queue |-> [q EXCEPT !.ConsumerCursor = @ + 1],
          status |-> TRANSACTION_SUCCESS,
          val |-> q.RingBuffer[ClaimedIndexMask(q.ConsumerCursor)]]

(***************************************************************************)
(* C33.  CAS and fetch-add claims are interchangeable sequentially: the    *)
(* calls of a single-threaded run, with every EnqueueCAS taken as Enqueue  *)
(* and every DequeueCAS as Dequeue, return the same statuses and the same  *)
(* dequeued values and leave the same cursors and slot contents as the     *)
(* run itself.  AsFetchAdd(n) is the outcome of the n-th call of the       *)
(* history made as Enqueue / Dequeue after the n - 1 calls before it.      *)
(***************************************************************************)
RECURSIVE AsFetchAdd(_)
AsFetchAdd(n) ==
    IF n = 0
    THEN [queue |-> [ProducerCursor |-> 0, ConsumerCursor |-> 0,
                     RingBuffer |-> [i \in DOMAIN RingBuffer |-> Indeterminate]],
          status |-> TRANSACTION_SUCCESS,
          val |-> NoIndex]
    ELSE IF IsEnqueue(history[n])
         THEN EnqueueSequential(AsFetchAdd(n - 1).queue, history[n].val)
         ELSE DequeueSequential(AsFetchAdd(n - 1).queue)

C33_CASInterchangeable ==
    Quiescent =>
       /\ \A n \in 1..Len(history) :
             /\ history[n].status = AsFetchAdd(n).status
             /\ DequeueSucceeded(history[n]) => history[n].val = AsFetchAdd(n).val
       /\ ProducerCursor = AsFetchAdd(Len(history)).queue.ProducerCursor
       /\ ConsumerCursor = AsFetchAdd(Len(history)).queue.ConsumerCursor
       /\ RingBuffer = AsFetchAdd(Len(history)).queue.RingBuffer

C33_Witness ==
    /\ Quiescent
    /\ \E i, j \in 1..Len(history) :
          /\ i < j
          /\ history[i].op = "EnqueueCAS" /\ history[i].status = TRANSACTION_SUCCESS
          /\ history[j].op = "DequeueCAS" /\ history[j].status = TRANSACTION_SUCCESS
          /\ history[j].idx = history[i].idx
    /\ \E i \in 1..Len(history) : history[i].op \in {"Enqueue", "Dequeue"}

====
